---- MODULE Spec2Model ----
(***************************************************************************)
(* LineAgeMap (app.py): family-graph normalization, dataset resolution,    *)
(* public slugs and landing previews.                                      *)
(*                                                                         *)
(* JSON values are records [t, s, l, m]: t is the Python type ("null",     *)
(* "str", "int", "list", "map"), s the text of a str or the digits of an   *)
(* int, l the elements of a list, m the key -> value function of a dict.   *)
(* Strings that the code scans character by character (slugs) are          *)
(* sequences of one-character strings.                                     *)
(***************************************************************************)
EXTENDS Integers, Sequences, FiniteSets, TLC

VARIABLES
    rels,        \* argument of _normalize_relationships
    relsOut,     \* its return value
    payload,     \* argument of _normalize_tree
    tree,        \* its return value
    tree2,       \* the return value of _normalize_tree applied to tree
    loaded,      \* the return value of load_family_file on the file holding payload
    slugIn,      \* argument of slugify
    slugOut,     \* its return value
    sampleFiles, \* sample files by path: their JSON document, or NoFile
    userFiles,   \* DATA_DIR/families/<uid>/family.json by uid: document or NoFile
    namedFiles,  \* DATA_DIR/family_<name>.json and DATA_DIR/<name>.json by path
    users,       \* rows of the users table, in id order
    session,     \* session["user_id"], or NoSession
    resp         \* the response of the last request

vars == <<rels, relsOut, payload, tree, tree2, loaded, slugIn, slugOut,
          sampleFiles, userFiles, namedFiles, users, session, resp>>

relVars == <<rels, relsOut>>
treeVars == <<payload, tree, tree2, loaded>>
slugVars == <<slugIn, slugOut>>
fileVars == <<sampleFiles, userFiles, namedFiles>>
sysVars == <<sampleFiles, userFiles, namedFiles, users, session, resp>>
pureVars == <<rels, relsOut, payload, tree, tree2, loaded, slugIn, slugOut>>

----------------------------------------------------------------------------
(* Bounds *)

MaxKeysPerSide == 2     \* endpoint keys present per side of a generated record
MaxRels == 3            \* length of generated relationship lists
MaxTopKeys == 2         \* top-level alias keys present per field of a generated payload
MaxTail == 3            \* free characters of a generated slugify argument
MaxUsers == 2           \* rows of the users table
MaxPeople == 3          \* people of a generated preview dataset
MaxEdges == 2           \* relationships of a generated preview dataset

----------------------------------------------------------------------------
(* JSON values *)

EmptyMap == [k \in {} |-> 0]

J(t, s, l, m) == [t |-> t, s |-> s, l |-> l, m |-> m]

None == J("null", "", <<>>, EmptyMap)
Str(s) == J("str", s, <<>>, EmptyMap)
Num(digits) == J("int", digits, <<>>, EmptyMap)
ListV(l) == J("list", "", l, EmptyMap)
MapV(m) == J("map", "", <<>>, m)
Unset == J("unset", "", <<>>, EmptyMap)

\* The variables of a function that is not called in a specification.
RelIdle == rels = Unset /\ relsOut = Unset
TreeIdle == payload = Unset /\ tree = Unset /\ tree2 = Unset /\ loaded = Unset
SlugIdle == slugIn = Unset /\ slugOut = Unset
SysIdle ==
    /\ sampleFiles = EmptyMap /\ userFiles = EmptyMap /\ namedFiles = EmptyMap
    /\ users = <<>> /\ session = 0 /\ resp = Unset

\* Python truth value of a JSON value (the operand test of `or`, `if x`).
Truthy(v) ==
    CASE v.t = "null" -> FALSE
      [] v.t = "str"  -> v.s # ""
      [] v.t = "int"  -> v.s # "0"
      [] v.t = "list" -> v.l # <<>>
      [] v.t = "map"  -> DOMAIN v.m # {}
      [] OTHER        -> FALSE

\* str(v) for the values used as endpoints and ids.
PyStrRepr(v) ==
    CASE v.t = "null" -> Str("None")
      [] v.t = "str"  -> Str("'" \o v.s \o "'")
      [] v.t = "text" -> J("text", "", <<"'">> \o v.l \o <<"'">>, EmptyMap)
      [] v.t = "int"  -> Str(v.s)
      [] v.t = "list" /\ v.l = <<>> -> Str("[]")
      [] v.t = "map" /\ DOMAIN v.m = {} -> Str("{}")

PyStr(v) ==
    CASE v.t = "null" -> Str("None")
      [] v.t = "str"  -> Str(v.s)
      [] v.t = "text" -> v
      [] v.t = "int"  -> Str(v.s)
      [] v.t = "list" /\ v.l = <<>> -> Str("[]")
      [] v.t = "map" /\ DOMAIN v.m = {} -> Str("{}")

\* d.get(k) on a dict d (given as its key -> value function).
Get(m, k) == IF k \in DOMAIN m THEN m[k] ELSE None

\* a or b or c or d
Or4(a, b, c, d) ==
    IF Truthy(a) THEN a ELSE IF Truthy(b) THEN b ELSE IF Truthy(c) THEN c ELSE d

----------------------------------------------------------------------------
(* Relationship Normalizer *)

ParentKeys == <<"parentId", "parent", "sourceId", "source">>
ChildKeys == <<"childId", "child", "targetId", "target">>

ResolveParent(m) ==
    Or4(Get(m, "parentId"), Get(m, "parent"), Get(m, "sourceId"), Get(m, "source"))

ResolveChild(m) ==
    Or4(Get(m, "childId"), Get(m, "child"), Get(m, "targetId"), Get(m, "target"))

\* nr = dict(r); nr["parentId"] = str(parent); nr["childId"] = str(child)
NormalizedRecord(m) ==
    MapV([k \in DOMAIN m \cup {"parentId", "childId"} |->
            IF k = "parentId" THEN PyStr(ResolveParent(m))
            ELSE IF k = "childId" THEN PyStr(ResolveChild(m))
            ELSE m[k]])

\* One iteration of the loop: the records appended to out for element r.
NormalizeOne(r) ==
    IF r.t # "map" THEN <<>>
    ELSE IF ResolveParent(r.m) = None \/ ResolveChild(r.m) = None THEN <<>>
    ELSE <<NormalizedRecord(r.m)>>

RECURSIVE NormalizeLoop(_)
NormalizeLoop(l) ==
    IF l = <<>> THEN <<>> ELSE NormalizeOne(Head(l)) \o NormalizeLoop(Tail(l))

normalize_relationships(v) ==
    IF v.t # "list" THEN <<>> ELSE NormalizeLoop(v.l)

----------------------------------------------------------------------------
(* Tree Normalizer *)

PeopleKeys == <<"people", "persons", "nodes">>
RelsKeys == <<"relationships", "edges", "links">>

EmptyList == ListV(<<>>)

\* Ablation of normalize_tree: the first alias key that is present with a
\* non-null value wins, also when its value is an empty list.
FirstPresent(m, keys) ==
    IF Get(m, keys[1]) # None THEN Get(m, keys[1])
    ELSE IF Get(m, keys[2]) # None THEN Get(m, keys[2])
    ELSE IF Get(m, keys[3]) # None THEN Get(m, keys[3])
    ELSE EmptyList

normalize_tree_first_present(m) ==
    LET people == FirstPresent(m, PeopleKeys)
        rs == FirstPresent(m, RelsKeys)
    IN MapV([k \in {"people", "relationships"} |->
               IF k = "people"
               THEN (IF people.t = "list" THEN people ELSE EmptyList)
               ELSE ListV(normalize_relationships(rs))])

normalize_tree(m) ==
    LET people == Or4(Get(m, "people"), Get(m, "persons"), Get(m, "nodes"), EmptyList)
        rs == Or4(Get(m, "relationships"), Get(m, "edges"), Get(m, "links"), EmptyList)
    IN MapV([k \in {"people", "relationships"} |->
               IF k = "people"
               THEN (IF people.t = "list" THEN people ELSE EmptyList)
               ELSE ListV(normalize_relationships(rs))])

----------------------------------------------------------------------------
(* Generated inputs of the Relationship Normalizer *)

EndVals == {None, Str(""), Str("a"), Str("b"), Num("0"), Num("1")}

SeqSet(s) == {s[i] : i \in DOMAIN s}

SideMaps(keys) ==
    UNION {[S -> EndVals] : S \in {T \in SUBSET SeqSet(keys) : Cardinality(T) <= MaxKeysPerSide}}

ExtraMaps == {EmptyMap, [k \in {"label"} |-> Str("x")]}

ParentSmall ==
    {EmptyMap} \cup {[k \in {ParentKeys[i]} |-> Str("a")] : i \in 1..4}
    \cup {[k \in {"source"} |-> Str("")]}

ChildSmall ==
    {EmptyMap} \cup {[k \in {ChildKeys[i]} |-> Str("b")] : i \in 1..4}
    \cup {[k \in {"target"} |-> Str("")]}

RelRecords ==
    {MapV(p @@ c @@ x) : p \in SideMaps(ParentKeys), c \in ChildSmall, x \in ExtraMaps}
    \cup {MapV(p @@ c @@ x) : p \in ParentSmall, c \in SideMaps(ChildKeys), x \in ExtraMaps}

RelElemsSmall ==
    { MapV([k \in {"parentId", "childId"} |-> IF k = "parentId" THEN Str("a") ELSE Str("b")]),
      MapV([k \in {"source", "target", "label"} |->
              IF k = "source" THEN Str("a") ELSE IF k = "target" THEN Str("b") ELSE Str("x")]),
      MapV([k \in {"parent", "child"} |-> IF k = "parent" THEN Num("1") ELSE Str("b")]),
      MapV([k \in {"source", "target"} |-> IF k = "source" THEN Str("") ELSE Str("b")]),
      MapV([k \in {"parentId"} |-> Str("a")]),
      Str("junk") }

RECURSIVE SeqsUpTo(_, _)
SeqsUpTo(S, n) ==
    IF n = 0 THEN {<<>>}
    ELSE LET shorter == SeqsUpTo(S, n - 1)
         IN shorter \cup {Append(q, e) : q \in shorter, e \in S}

RelInputs ==
    {ListV(<<r>>) : r \in RelRecords}
    \cup {ListV(q) : q \in SeqsUpTo(RelElemsSmall, MaxRels)}
    \cup {None, Str("ab"), Num("1"),
          MapV([k \in {"source", "target"} |-> IF k = "source" THEN Str("a") ELSE Str("b")])}

----------------------------------------------------------------------------
(* Specification of the Relationship Normalizer *)

InitRel ==
    /\ rels \in RelInputs
    /\ relsOut = Unset
    /\ TreeIdle /\ SlugIdle /\ SysIdle

CallNormalizeRelationships ==
    /\ rels # Unset
    /\ relsOut = Unset
    /\ relsOut' = ListV(normalize_relationships(rels))
    /\ UNCHANGED <<rels, treeVars, slugVars, sysVars>>

NextRel == CallNormalizeRelationships

SpecRel == InitRel /\ [][NextRel]_vars

----------------------------------------------------------------------------
(* Claims about the Relationship Normalizer *)

\* "Non-null, non-empty": a value Python takes as true. The `or` chains of the
\* source test exactly this, so None, "", [] and {} count as empty and so does
\* the number 0.
NonEmptyValue(v) == Truthy(v)

HasEndpoint(m, keys) == \E i \in 1..4 : NonEmptyValue(Get(m, keys[i]))

\* The value under the first key, in the order of keys, that holds a value.
FirstValue(m, keys) ==
    LET i == CHOOSE i \in 1..4 :
                 /\ NonEmptyValue(Get(m, keys[i]))
                 /\ \A j \in 1..(i - 1) : ~NonEmptyValue(Get(m, keys[j]))
    IN m[keys[i]]

\* Output record o is the canonical form of input record r.
CanonicalOf(o, r) ==
    /\ o.t = "map"
    /\ DOMAIN o.m = DOMAIN r.m \cup {"parentId", "childId"}
    /\ HasEndpoint(r.m, ParentKeys)
    /\ HasEndpoint(r.m, ChildKeys)
    /\ o.m["parentId"] = Str(PyStr(FirstValue(r.m, ParentKeys)).s)
    /\ o.m["childId"] = Str(PyStr(FirstValue(r.m, ChildKeys)).s)
    /\ \A k \in DOMAIN r.m \ {"parentId", "childId"} : o.m[k] = r.m[k]

\* C1: every record kept by _normalize_relationships has parentId and childId
\* equal to the string form of the value under the first key of its side that
\* holds a non-null, non-empty value, and keeps all its other keys unchanged.
\* Stated on the inputs all of whose elements are kept, where output record i
\* comes from input record i.
C1_KeptRecordsCanonical ==
    (relsOut # Unset /\ rels.t = "list" /\ Len(relsOut.l) = Len(rels.l))
        => \A i \in DOMAIN rels.l :
               rels.l[i].t = "map" /\ CanonicalOf(relsOut.l[i], rels.l[i])

Qualifies(r) ==
    r.t = "map" /\ HasEndpoint(r.m, ParentKeys) /\ HasEndpoint(r.m, ChildKeys)

\* C2: the result is the in-order subsequence of exactly the input elements
\* that are mappings with a non-null, non-empty value for each endpoint; a
\* non-list input gives the empty result; the output is never longer than the
\* input.
C2_ExactSubsequence ==
    relsOut # Unset =>
        /\ rels.t # "list" => relsOut.l = <<>>
        /\ rels.t = "list" =>
              LET expected == SelectSeq(rels.l, Qualifies)
              IN /\ Len(relsOut.l) = Len(expected)
                 /\ Len(relsOut.l) <= Len(rels.l)
                 /\ \A i \in DOMAIN expected : CanonicalOf(relsOut.l[i], expected[i])

----------------------------------------------------------------------------
(* Generated inputs of the Tree Normalizer *)

Person(id) == MapV([k \in {"id"} |-> id])

Edge(pk, pv, ck, cv) == MapV([k \in {pk, ck} |-> IF k = pk THEN pv ELSE cv])

PeopleVals ==
    { None, EmptyList, Str("x"), Num("0"),
      ListV(<<Person(Str("a"))>>),
      ListV(<<Person(Num("1")), Person(Str("b"))>>) }

RelsVals ==
    { None, EmptyList, Str("x"),
      ListV(<<Edge("parentId", Str("a"), "childId", Str("b"))>>),
      ListV(<<Edge("source", Str(""), "target", Num("1")), Str("junk")>>),
      ListV(<<Edge("parent", Num("1"), "child", Num("0")),
              Edge("sourceId", Num("1"), "targetId", Str("b"))>>) }

AliasMaps(keys, vals) ==
    UNION {[S -> vals] : S \in {T \in SUBSET SeqSet(keys) : Cardinality(T) <= MaxTopKeys}}

\* Every generated payload carries a key the normalizer does not read.
MetaMaps == {[k \in {"meta"} |-> MapV([j \in {"family_name"} |-> Str("x")])]}

Payloads ==
    {MapV(p @@ r @@ x) : p \in AliasMaps(PeopleKeys, PeopleVals),
                         r \in AliasMaps(RelsKeys, RelsVals), x \in MetaMaps}

----------------------------------------------------------------------------
(* Specification of the Tree Normalizer *)

InitTree ==
    /\ payload \in Payloads
    /\ tree = Unset /\ tree2 = Unset /\ loaded = Unset
    /\ RelIdle /\ SlugIdle /\ SysIdle

CallNormalizeTree ==
    /\ payload # Unset
    /\ tree = Unset
    /\ tree' = normalize_tree(payload.m)
    /\ UNCHANGED <<payload, tree2, loaded, relVars, slugVars, sysVars>>

\* The canonical dataset handed to _normalize_tree once more.
CallNormalizeTreeAgain ==
    /\ tree # Unset
    /\ tree2 = Unset
    /\ tree2' = normalize_tree(tree.m)
    /\ UNCHANGED <<payload, tree, loaded, relVars, slugVars, sysVars>>

NextTree == CallNormalizeTree \/ CallNormalizeTreeAgain

SpecTree == InitTree /\ [][NextTree]_vars

----------------------------------------------------------------------------
(* Claims about the Tree Normalizer *)

\* C3: normalization is idempotent: _normalize_tree applied to its own result
\* returns that result again (same people, same relationship records in the
\* same order).
C3_Idempotent == tree2 # Unset => tree2 = tree

\* A second pass has run on a payload read through alias keys whose canonical
\* relationships hold an empty-string endpoint and a stringified numeric id.
C3_Witness ==
    /\ tree2 # Unset
    /\ "people" \notin DOMAIN payload.m
    /\ "relationships" \notin DOMAIN payload.m
    /\ tree.m["people"].l # <<>>
    /\ \E i \in DOMAIN tree.m["relationships"].l :
          LET r == tree.m["relationships"].l[i].m
          IN r["parentId"] = Str("") /\ r["childId"] = Str("1") /\ r["target"] = Num("1")

\* The value under the first alias key that holds a non-null, non-empty value;
\* None when no alias key does.
FirstNonEmpty(m, keys) ==
    IF \E i \in 1..3 : NonEmptyValue(Get(m, keys[i]))
    THEN LET i == CHOOSE i \in 1..3 :
                      /\ NonEmptyValue(Get(m, keys[i]))
                      /\ \A j \in 1..(i - 1) : ~NonEmptyValue(Get(m, keys[j]))
         IN m[keys[i]]
    ELSE None

\* C4: _normalize_tree returns exactly the keys people and relationships;
\* people is the value of the first of people, persons, nodes that is non-null
\* and non-empty, replaced by the empty list when it is not a list (and when no
\* key holds a value); relationships is the Relationship Normalizer applied to
\* the first non-null, non-empty value among relationships, edges, links.
C4_TreeShape ==
    tree # Unset =>
        LET p == FirstNonEmpty(payload.m, PeopleKeys)
            r == FirstNonEmpty(payload.m, RelsKeys)
        IN /\ tree.t = "map"
           /\ DOMAIN tree.m = {"people", "relationships"}
           /\ tree.m["people"].t = "list"
           /\ tree.m["people"] = (IF p.t = "list" THEN p ELSE EmptyList)
           /\ tree.m["relationships"] = ListV(normalize_relationships(r))

\* An empty list under people fell through to a later alias, which held the
\* people returned, and the relationships came from an alias key.
C4_Witness ==
    /\ tree # Unset
    /\ Get(payload.m, "people") = EmptyList
    /\ tree.m["people"].l # <<>>
    /\ "relationships" \notin DOMAIN payload.m
    /\ tree.m["relationships"].l # <<>>

----------------------------------------------------------------------------
(* Public slugs: slugify *)

\* A str scanned character by character: l holds its characters.
Text(chars) == J("text", "", chars, EmptyMap)

SlugCap == 64

Digits == <<"0", "1", "2", "3", "4", "5", "6", "7", "8", "9">>
LowerAlnum == {"a", "b"} \cup SeqSet(Digits)
UpperAlpha == {"A"}
Dashes == {"-", "_", "."}
Spaces == {" "}
Others == {"!"}

IsAlnum(c) == c \in LowerAlnum \cup UpperAlpha
IsSpace(c) == c \in Spaces

\* str.lower() on one character.
Lower(c) == IF c = "A" THEN "a" ELSE c

\* The positions of q that hold a character strip() does not drop.
Kept(q, Drop(_)) == {i \in 1..Len(q) : ~Drop(q[i])}

MinOf(S) == CHOOSE i \in S : \A j \in S : i <= j
MaxOf(S) == CHOOSE i \in S : \A j \in S : j <= i

LStrip(q, Drop(_)) ==
    IF Kept(q, Drop) = {} THEN <<>> ELSE SubSeq(q, MinOf(Kept(q, Drop)), Len(q))

\* str.strip(): both ends.
Strip(q, Drop(_)) ==
    IF Kept(q, Drop) = {} THEN <<>>
    ELSE SubSeq(q, MinOf(Kept(q, Drop)), MaxOf(Kept(q, Drop)))

IsDash(c) == c = "-"

\* The for loop of slugify: one output character, or none, per input character.
RECURSIVE SlugChars(_)
SlugChars(q) ==
    IF q = <<>> THEN <<>>
    ELSE LET c == Head(q)
         IN (IF IsAlnum(c) THEN <<c>>
             ELSE IF c \in Dashes THEN <<"-">>
             ELSE IF IsSpace(c) THEN <<"-">>
             ELSE <<>>) \o SlugChars(Tail(q))

HasDoubleDash(q) == \E i \in 1..(Len(q) - 1) : q[i] = "-" /\ q[i + 1] = "-"

\* slug.replace("--", "-"): one left-to-right pass over non-overlapping matches.
RECURSIVE ReplaceDoubleDash(_)
ReplaceDoubleDash(q) ==
    IF Len(q) < 2 THEN q
    ELSE IF q[1] = "-" /\ q[2] = "-" THEN <<"-">> \o ReplaceDoubleDash(SubSeq(q, 3, Len(q)))
    ELSE <<q[1]>> \o ReplaceDoubleDash(Tail(q))

\* while "--" in slug: slug = slug.replace("--", "-")
RECURSIVE CollapseDashes(_)
CollapseDashes(q) ==
    IF HasDoubleDash(q) THEN CollapseDashes(ReplaceDoubleDash(q)) ELSE q

Family == <<"f", "a", "m", "i", "l", "y">>

MapSeq(q, F(_)) == [i \in 1..Len(q) |-> F(q[i])]

Prefix(q, n) == SubSeq(q, 1, IF Len(q) < n THEN Len(q) ELSE n)

slugify(q) ==
    LET s1 == MapSeq(Strip(q, IsSpace), Lower)
        slug == CollapseDashes(Strip(SlugChars(s1), IsDash))
        cut == Prefix(slug, SlugCap)
    IN IF cut = <<>> THEN Family ELSE cut

----------------------------------------------------------------------------
(* Generated arguments of slugify, and its specification *)

Alphabet == {"a", "1"} \cup UpperAlpha \cup Dashes \cup Spaces \cup Others

Repeat(c, n) == [i \in 1..n |-> c]

\* A run of "a" that ends at, one short of or two short of the length cap (or
\* no run), followed by up to MaxTail free characters.
SlugInputs ==
    {Repeat("a", n) \o t : n \in {0, SlugCap - 2, SlugCap - 1, SlugCap},
                            t \in SeqsUpTo(Alphabet, MaxTail)}

InitSlug ==
    /\ slugIn \in {Text(q) : q \in SlugInputs}
    /\ slugOut = Unset
    /\ RelIdle /\ TreeIdle /\ SysIdle

CallSlugify ==
    /\ slugIn # Unset
    /\ slugOut = Unset
    /\ slugOut' = Text(slugify(slugIn.l))
    /\ UNCHANGED <<slugIn, relVars, treeVars, sysVars>>

NextSlug == CallSlugify

SpecSlug == InitSlug /\ [][NextSlug]_vars

----------------------------------------------------------------------------
(* Claims about slugify *)

IsAlnumLower(c) == c \in LowerAlnum

\* The maximal runs of alphanumeric characters of q, lowercased, joined by one
\* hyphen each: what collapsing every run of other characters between two
\* alphanumeric characters to one hyphen, and dropping the runs at the ends,
\* gives.
RECURSIVE JoinedRuns(_, _)
JoinedRuns(q, started) ==
    IF q = <<>> THEN <<>>
    ELSE IF IsAlnum(Head(q)) THEN <<Lower(Head(q))>> \o JoinedRuns(Tail(q), TRUE)
    ELSE LET rest == LStrip(q, LAMBDA c : ~IsAlnum(c))
         IN IF rest = <<>> THEN <<>>
            ELSE (IF started THEN <<"-">> ELSE <<>>) \o JoinedRuns(rest, started)

\* C8: slugify returns a non-empty string of at most 64 lowercase alphanumeric
\* characters and hyphens, with every run of non-alphanumeric characters
\* between two alphanumeric characters collapsed to one hyphen, without a
\* leading or trailing hyphen, and "family" when the input has no
\* alphanumeric character.
C8_SlugShape ==
    slugOut # Unset =>
        LET out == slugOut.l
            expected == JoinedRuns(slugIn.l, FALSE)
        IN /\ out # <<>>
           /\ Len(out) <= SlugCap
           /\ \A i \in DOMAIN out : IsAlnumLower(out[i]) \/ out[i] = "-" \/ out = Family
           /\ out[1] # "-"
           /\ out[Len(out)] # "-"
           /\ expected = <<>> => out = Family
           /\ expected # <<>> => out = Prefix(expected, Len(out))

\* C8 on the inputs made only of alphanumeric characters, hyphens,
\* underscores, dots and spaces: the characters slugify does not delete.
C8_SlugShapeSeparatorsOnly ==
    (slugOut # Unset /\ \A i \in DOMAIN slugIn.l : slugIn.l[i] \notin Others)
        => C8_SlugShape

----------------------------------------------------------------------------
(* Dataset Resolver: samples *)

NoFile == J("nofile", "", <<>>, EmptyMap)

DEFAULT_SAMPLE_ID == "stark"
ALLOWED_SAMPLES == {"stark", "got", "gupta", "kennedy"}

\* The result of a call: code 200 with the returned value, or the code and
\* description of the abort() that ended it.
Result(code, body, detail) == [code |-> code, body |-> body, detail |-> detail]

Return(v) == Result(200, v, <<>>)

\* sample_id.endswith(".json"), on the sample ids in use.
EndsWithJson(sid) == sid \in {"stark.json", "got.json"}

SampleFname(sid) == IF EndsWithJson(sid) THEN sid ELSE sid \o ".json"

\* Ablation of sample_paths: the shipped repo directory searched first.
sample_paths_repo_first(sid) ==
    LET fname == SampleFname(sid)
    IN << "APP_DIR/samples/" \o fname,
          "DATA_DIR/samples/" \o fname,
          "APP_DIR/static/samples/" \o fname,
          "APP_DIR/static/data/" \o fname,
          "APP_DIR/data/samples/" \o fname >>

sample_paths(sid) ==
    LET fname == SampleFname(sid)
    IN << "DATA_DIR/samples/" \o fname,
          "APP_DIR/samples/" \o fname,
          "APP_DIR/static/samples/" \o fname,
          "APP_DIR/static/data/" \o fname,
          "APP_DIR/data/samples/" \o fname >>

\* p.exists() for a sample path.
SampleExists(files, path) == path \in DOMAIN files /\ files[path] # NoFile

\* for p in _sample_paths(sample_id): if p.exists(): return json.load(f)
RECURSIVE FirstExisting(_, _)
FirstExisting(files, ps) ==
    IF ps = <<>> THEN NoFile
    ELSE IF SampleExists(files, Head(ps)) THEN files[Head(ps)]
    ELSE FirstExisting(files, Tail(ps))

load_sample_json(files, sid) ==
    LET found == FirstExisting(files, sample_paths(sid))
    IN IF found # NoFile THEN Return(found)
       ELSE Result(404, Str("Sample not found. Looked in:"), sample_paths(sid))

\* Ablation of load_sample_tree: the tree is returned whatever its people.
load_sample_tree_unchecked(files, sid) ==
    LET raw == load_sample_json(files, sid)
    IN IF raw.code # 200 THEN raw ELSE Return(normalize_tree(raw.body.m))

load_sample_tree(files, sid) ==
    LET raw == load_sample_json(files, sid)
    IN IF raw.code # 200 THEN raw
       ELSE LET t == normalize_tree(raw.body.m)
            IN IF ~Truthy(t.m["people"])
               THEN Result(500, Str("Sample loaded but produced 0 people."), <<>>)
               ELSE Return(t)

\* The response of a request: the handler, its argument and the result.
Response(op, arg, r) ==
    [op |-> op, arg |-> arg, code |-> r.code, body |-> r.body, detail |-> r.detail]

----------------------------------------------------------------------------
(* Specification of the sample resolver *)

SampleFnames == {"stark.json", "got.json"}
SampleIds == {"stark", "stark.json", "got"}

SamplePaths == UNION {SeqSet(sample_paths(sid)) : sid \in SampleIds}

\* The document stored at a sample path: one person named after the path.
SampleDoc(path) == MapV([k \in {"people"} |-> ListV(<<Person(Str(path))>>)])

InitSample ==
    /\ sampleFiles \in {[q \in SamplePaths |-> IF q \in E THEN SampleDoc(q) ELSE NoFile] :
                           E \in SUBSET SamplePaths}
    /\ userFiles = EmptyMap /\ namedFiles = EmptyMap
    /\ users = <<>> /\ session = 0 /\ resp = Unset
    /\ RelIdle /\ TreeIdle /\ SlugIdle

CallLoadSampleJson(sid) ==
    /\ resp' = Response("_load_sample_json", Str(sid), load_sample_json(sampleFiles, sid))
    /\ UNCHANGED <<fileVars, users, session, pureVars>>

NextSample == \E sid \in SampleIds : CallLoadSampleJson(sid)

SpecSample == InitSample /\ [][NextSample]_vars

----------------------------------------------------------------------------
(* Claims about the sample resolver *)

\* The candidate locations in the order the design fixes: the persistent
\* disk copy, the shipped repo copy, then the legacy static locations.
CandidateDirs ==
    <<"DATA_DIR/samples/", "APP_DIR/samples/", "APP_DIR/static/samples/",
      "APP_DIR/static/data/", "APP_DIR/data/samples/">>

CandidateFile(sid) == IF sid = "stark.json" THEN "stark.json" ELSE sid \o ".json"

Candidate(sid, i) == CandidateDirs[i] \o CandidateFile(sid)

\* C9: _load_sample_json returns the content of the first existing candidate
\* file (never a later one when an earlier one exists), and signals 404 with
\* all five candidate paths, in order, when none exists.
C9_FirstExistingWins ==
    (resp # Unset /\ resp.op = "_load_sample_json") =>
        LET sid == resp.arg.s
            existing == {i \in 1..5 : sampleFiles[Candidate(sid, i)] # NoFile}
        IN /\ existing # {} =>
                 /\ resp.code = 200
                 /\ \E i \in existing :
                       /\ \A j \in existing : i <= j
                       /\ resp.body = sampleFiles[Candidate(sid, i)]
           /\ existing = {} =>
                 /\ resp.code = 404
                 /\ resp.detail = [i \in 1..5 |-> Candidate(sid, i)]

\* The persistent disk copy is missing and both the repo copy and a legacy
\* copy exist: the repo copy was returned.
C9_Witness ==
    /\ resp # Unset /\ resp.op = "_load_sample_json" /\ resp.arg = Str("stark")
    /\ sampleFiles[Candidate("stark", 1)] = NoFile
    /\ sampleFiles[Candidate("stark", 2)] # NoFile
    /\ sampleFiles[Candidate("stark", 4)] # NoFile
    /\ resp.code = 200
    /\ resp.body = SampleDoc("APP_DIR/samples/stark.json")

----------------------------------------------------------------------------
(* Dataset Resolver: family files *)

Put(m, k, v) == [x \in DOMAIN m \cup {k} |-> IF x = k THEN v ELSE m[x]]

\* v or []
OrEmptyList(v) == IF Truthy(v) THEN v ELSE EmptyList

\* load_family_file(path), given what the path holds.
load_family_file(file) ==
    IF file = NoFile
    THEN MapV([k \in {"people", "relationships"} |-> EmptyList])
    ELSE LET d0 == file.m
             d1 == IF "people" \notin DOMAIN d0 /\ "nodes" \in DOMAIN d0
                   THEN Put(d0, "people", OrEmptyList(Get(d0, "nodes"))) ELSE d0
             d2 == IF "relationships" \notin DOMAIN d1 /\ "links" \in DOMAIN d1
                   THEN Put(d1, "relationships", OrEmptyList(Get(d1, "links"))) ELSE d1
             d3 == IF Get(d2, "people").t # "list" THEN Put(d2, "people", EmptyList) ELSE d2
         IN MapV(Put(d3, "relationships",
                     ListV(normalize_relationships(Get(d3, "relationships")))))

\* user_family_file(uid).exists()
UserFileExists(files, uid) == uid \in DOMAIN files /\ files[uid] # NoFile

UserFile(files, uid) == IF uid \in DOMAIN files THEN files[uid] ELSE NoFile

\* Ablation of load_user_family: one family file shared by all users.
load_user_family_shared(ufiles, sfiles, uid) ==
    IF UserFileExists(ufiles, 1)
    THEN Return(load_family_file(UserFile(ufiles, 1)))
    ELSE load_sample_tree(sfiles, DEFAULT_SAMPLE_ID)

load_user_family(ufiles, sfiles, uid) ==
    IF UserFileExists(ufiles, uid)
    THEN Return(load_family_file(UserFile(ufiles, uid)))
    ELSE load_sample_tree(sfiles, DEFAULT_SAMPLE_ID)

\* _safe_family_name(name)
RECURSIVE SafeChars(_)
SafeChars(q) ==
    IF q = <<>> THEN <<>>
    ELSE (IF IsAlnum(Head(q)) \/ Head(q) \in {"-", "_"} THEN <<Head(q)>> ELSE <<>>)
         \o SafeChars(Tail(q))

safe_family_name(name) == SafeChars(MapSeq(name, Lower))

NamedPath(prefix, safe) == [prefix |-> prefix, safe |-> safe]

NamedExists(files, path) == path \in DOMAIN files /\ files[path] # NoFile

family_path(files, name) ==
    LET safe == safe_family_name(name)
        p1 == NamedPath("family_", safe)
        p2 == NamedPath("", safe)
    IN IF NamedExists(files, p1) THEN p1
       ELSE IF NamedExists(files, p2) THEN p2
       ELSE p1

----------------------------------------------------------------------------
(* Users and public slugs *)

NoSession == 0

\* str(i) as characters.
RECURSIVE Decimal(_)
Decimal(i) ==
    IF i < 10 THEN <<Digits[i + 1]>> ELSE Decimal(i \div 10) \o <<Digits[(i % 10) + 1]>>

StoredSlugs(rows) == {rows[i].public_slug : i \in DOMAIN rows}

\* The while loop of unique_public_slug, entered with candidate slug and counter i.
RECURSIVE UniqueLoop(_, _, _, _)
UniqueLoop(rows, base, slug, i) ==
    IF slug \notin StoredSlugs(rows) THEN slug
    ELSE UniqueLoop(rows, base, base \o <<"-">> \o Decimal(i), i + 1)

unique_public_slug(rows, base) ==
    LET b == slugify(base) IN UniqueLoop(rows, b, b, 2)

\* SELECT id, is_public FROM users WHERE public_slug = ?  (fetchone)
RowsWithSlug(rows, slug) == {i \in DOMAIN rows : rows[i].public_slug = slug}

\* Ablation of load_public_family_by_slug: the is_public flag is not tested.
load_public_family_by_slug_any(rows, ufiles, sfiles, slug) ==
    LET safe_slug == slugify(slug)
        found == RowsWithSlug(rows, safe_slug)
    IN IF found = {} THEN Return(None)
       ELSE LET row == rows[MinOf(found)]
            IN load_user_family(ufiles, sfiles, row.id)

load_public_family_by_slug(rows, ufiles, sfiles, slug) ==
    LET safe_slug == slugify(slug)
        found == RowsWithSlug(rows, safe_slug)
    IN IF found = {} THEN Return(None)
       ELSE LET row == rows[MinOf(found)]
            IN IF row.is_public # 1 THEN Return(None)
               ELSE load_user_family(ufiles, sfiles, row.id)

\* starter_family_payload(): two people with fresh ids, no relationships.
StarterPerson(id) ==
    MapV([k \in {"id", "name", "photo"} |-> IF k = "id" THEN Str(id) ELSE Str("")])

starter_family_payload(uid) ==
    MapV([k \in {"meta", "people", "relationships"} |->
            IF k = "meta" THEN MapV([j \in {"family_name"} |-> Str("My Family")])
            ELSE IF k = "people"
            THEN ListV(<<StarterPerson("p_1_" \o Digits[uid + 1]),
                         StarterPerson("p_2_" \o Digits[uid + 1])>>)
            ELSE EmptyList])

NotFoundBody == MapV([k \in {"error"} |-> Str("not found")])
ErrorBody(msg) == MapV([k \in {"ok", "error"} |-> IF k = "ok" THEN Str("false") ELSE Str(msg)])
OkBody == MapV([k \in {"ok"} |-> Str("true")])

----------------------------------------------------------------------------
(* Request handlers *)

Emails ==
    { [local |-> <<"a">>, domain |-> "x.org"],
      [local |-> <<"a">>, domain |-> "y.org"],
      [local |-> <<"b">>, domain |-> "x.org"] }

RegisteredEmails == {users[i].email : i \in DOMAIN users}

\* POST /api/register -> create_user
ApiRegister(email, pwOk) ==
    IF ~pwOk
    THEN /\ resp' = Response("api_register", Text(email.local),
                              Result(400, ErrorBody("Password must be at least 8 characters."), <<>>))
         /\ UNCHANGED <<fileVars, users, session, pureVars>>
    ELSE IF email \in RegisteredEmails
    THEN /\ resp' = Response("api_register", Text(email.local),
                              Result(409, ErrorBody("That email is already registered."), <<>>))
         /\ UNCHANGED <<fileVars, users, session, pureVars>>
    ELSE /\ Len(users) < MaxUsers
         /\ LET uid == Len(users) + 1
                 pub_slug == unique_public_slug(users, email.local)
            IN /\ users' = Append(users, [id |-> uid, email |-> email,
                                           public_slug |-> pub_slug, is_public |-> 0])
               /\ userFiles' = IF UserFileExists(userFiles, uid) THEN userFiles
                                ELSE [userFiles EXCEPT ![uid] = starter_family_payload(uid)]
               /\ session' = uid
         /\ resp' = Response("api_register", Text(email.local), Return(OkBody))
         /\ UNCHANGED <<sampleFiles, namedFiles, pureVars>>

\* POST /api/login, with the password of the account or another one.
ApiLogin(email, pwOk) ==
    /\ IF pwOk /\ email \in RegisteredEmails
       THEN /\ session' = (CHOOSE i \in DOMAIN users : users[i].email = email)
            /\ resp' = Response("api_login", Text(email.local), Return(OkBody))
       ELSE /\ session' = session
            /\ resp' = Response("api_login", Text(email.local),
                                 Result(401, ErrorBody("Invalid email or password."), <<>>))
    /\ UNCHANGED <<fileVars, users, pureVars>>

\* POST /api/logout
ApiLogout ==
    /\ session' = NoSession
    /\ resp' = Response("api_logout", None, Return(OkBody))
    /\ UNCHANGED <<fileVars, users, pureVars>>

\* POST /api/me/public
ApiMePublicToggle(flag) ==
    /\ IF session = NoSession
       THEN /\ users' = users
            /\ resp' = Response("api_me_public_toggle", None,
                                 Result(401, ErrorBody("Not authenticated."), <<>>))
       ELSE /\ users' = [users EXCEPT ![session].is_public = IF flag THEN 1 ELSE 0]
            /\ resp' = Response("api_me_public_toggle", None, Return(OkBody))
    /\ UNCHANGED <<fileVars, session, pureVars>>

\* GET /api/public/<slug>/tree
ApiPublicTree(slug) ==
    /\ LET fam == load_public_family_by_slug(users, userFiles, sampleFiles, slug)
       IN resp' = Response("api_public_tree", Text(slug),
                           IF fam.code = 200 /\ fam.body = None
                           THEN Result(404, NotFoundBody, <<>>)
                           ELSE fam)
    /\ UNCHANGED <<fileVars, users, session, pureVars>>

\* GET /api/tree/me
ApiTreeMe ==
    /\ resp' = Response("api_tree_me", None,
                         IF session # NoSession /\ UserFileExists(userFiles, session)
                         THEN Return(load_family_file(UserFile(userFiles, session)))
                         ELSE load_sample_tree(sampleFiles, DEFAULT_SAMPLE_ID))
    /\ UNCHANGED <<fileVars, users, session, pureVars>>

\* GET /api/sample/<sample_id>/tree, sample_id already stripped and lowercased.
ApiSampleTree(sid) ==
    /\ resp' = Response("api_sample_tree", Str(sid),
                         IF sid \notin ALLOWED_SAMPLES
                         THEN Result(404, Str("Sample not found."), <<>>)
                         ELSE load_sample_tree(sampleFiles, sid))
    /\ UNCHANGED <<fileVars, users, session, pureVars>>

\* GET /api/tree/<name>
ApiTree(name) ==
    /\ LET path == family_path(namedFiles, name)
       IN resp' = Response("api_tree", Text(name),
                           IF ~NamedExists(namedFiles, path)
                           THEN Result(404, NotFoundBody, <<path>>)
                           ELSE Return(load_family_file(namedFiles[path])))
    /\ UNCHANGED <<fileVars, users, session, pureVars>>

----------------------------------------------------------------------------
(* Landing previews *)

\* child_ids of index / public_family: str(childId) of the relationships whose
\* childId is true.
ChildIds(rs) ==
    {PyStr(Get(rs[i].m, "childId")) : i \in {j \in DOMAIN rs : Truthy(Get(rs[j].m, "childId"))}}

\* roots = [p for p in people if str(p.get("id")) not in child_ids]
\* roots = roots[:2] if roots else people[:2]
PreviewParents(fam) ==
    LET people == OrEmptyList(Get(fam, "people")).l
        rs == OrEmptyList(Get(fam, "relationships")).l
        IsRoot(p) == PyStr(Get(p.m, "id")) \notin ChildIds(rs)
        roots == SelectSeq(people, IsRoot)
    IN IF roots # <<>> THEN Prefix(roots, 2) ELSE Prefix(people, 2)

tree_preview(fam) ==
    MapV([k \in {"parents", "children"} |->
            IF k = "parents" THEN ListV(PreviewParents(fam)) ELSE EmptyList])

\* The characters of a stringified name: a string scanned by the sort is a
\* "text" value; the strings "" and "None" are what str gives for the default
\* and for null.
Chars(v) ==
    CASE v.t = "text" -> v.l
      [] v = Str("")  -> <<>>
      [] v = Str("None") -> <<"N", "o", "n", "e">>

\* ord(c) of the characters of the names in use.
Ord(c) ==
    CASE c = "N" -> 78 [] c = "a" -> 97 [] c = "b" -> 98
      [] c = "e" -> 101 [] c = "n" -> 110 [] c = "o" -> 111

\* x < y on Python strings: lexicographic on code points.
StrLess(x, y) ==
    \E k \in 1..Len(y) :
        /\ \A i \in 1..(k - 1) : i <= Len(x) /\ x[i] = y[i]
        /\ (k > Len(x) \/ Ord(x[k]) < Ord(y[k]))

\* key=lambda p: str(p.get("name", ""))
NameKey(p) == Chars(PyStr(IF "name" \in DOMAIN p.m THEN p.m["name"] ELSE Str("")))

\* One step of the stable sort: p goes behind the entries whose key is not
\* greater than its own.
InsertByName(sorted, p) ==
    LET k == Cardinality({i \in DOMAIN sorted : ~StrLess(NameKey(p), NameKey(sorted[i]))})
    IN SubSeq(sorted, 1, k) \o <<p>> \o SubSeq(sorted, k + 1, Len(sorted))

\* list.sort(key=...)
RECURSIVE SortByName(_)
SortByName(q) ==
    IF q = <<>> THEN <<>>
    ELSE InsertByName(SortByName(SubSeq(q, 1, Len(q) - 1)), q[Len(q)])

\* timeline_people = [p for p in people if p.get("photo")]
timeline_people(fam) ==
    LET HasPhoto(p) == Truthy(Get(p.m, "photo"))
    IN SelectSeq(OrEmptyList(Get(fam, "people")).l, HasPhoto)

\* (fam.get("meta") or {}).get("family_name") or "Family"
family_name(fam) ==
    LET meta == Get(fam, "meta")
        name == IF Truthy(meta) THEN Get(meta.m, "family_name") ELSE None
    IN IF Truthy(name) THEN name ELSE Str("Family")

\* GET /
Index ==
    /\ LET fam == load_sample_tree(sampleFiles, DEFAULT_SAMPLE_ID)
           timeline_preview == Prefix(SortByName(timeline_people(fam.body.m)), 5)
       IN resp' = Response("index", None,
                           IF fam.code # 200 THEN fam
                           ELSE Return(MapV([k \in {"tree_preview", "timeline_preview"} |->
                                   IF k = "tree_preview" THEN tree_preview(fam.body.m)
                                   ELSE ListV(timeline_preview)])))
    /\ UNCHANGED <<fileVars, users, session, pureVars>>

\* GET /f/<slug>
PublicFamily(slug) ==
    /\ LET fam == load_public_family_by_slug(users, userFiles, sampleFiles, slug)
       IN resp' = Response("public_family", Text(slug),
                           IF fam.code # 200 THEN fam
                           ELSE IF fam.body = None THEN Result(404, None, <<>>)
                           ELSE Return(MapV([k \in {"public_slug", "family_name",
                                                     "tree_preview", "timeline_preview"} |->
                                   CASE k = "public_slug" -> Text(slugify(slug))
                                     [] k = "family_name" -> family_name(fam.body.m)
                                     [] k = "tree_preview" -> tree_preview(fam.body.m)
                                     [] k = "timeline_preview" ->
                                            ListV(Prefix(timeline_people(fam.body.m), 5))])))
    /\ UNCHANGED <<fileVars, users, session, pureVars>>

----------------------------------------------------------------------------
(* Specification of the service *)

GoodSample ==
    MapV([k \in {"people", "relationships"} |->
            IF k = "people" THEN ListV(<<Person(Str("ned")), Person(Str("robb"))>>)
            ELSE ListV(<<Edge("source", Str("ned"), "target", Str("robb"))>>)])

\* A sample document that exists and resolves to no people.
EmptySample == MapV([k \in {"people", "edges"} |->
                       IF k = "people" THEN EmptyList
                       ELSE ListV(<<Edge("source", Str("ned"), "target", Str("robb"))>>)])

DocEmpty == MapV([k \in {"people", "relationships"} |-> EmptyList])

DocNodes ==
    MapV([k \in {"nodes", "links"} |->
            IF k = "nodes" THEN ListV(<<Person(Num("1")), Person(Str("kid"))>>)
            ELSE ListV(<<Edge("source", Num("1"), "target", Str("kid"))>>)])

RequestSlugs == {<<"A", " ">>, <<"a", "-", "2">>, <<"b">>, <<"z">>}
RequestNames == {<<"X", "!">>, <<"b">>}
RequestSamples == {"stark", "evil"}

NamedPaths == {NamedPath("family_", <<"x">>), NamedPath("", <<"x">>)}

InitService ==
    /\ \E d \in {NoFile, GoodSample, EmptySample} :
          sampleFiles = [q \in SamplePaths |->
                            IF q = "DATA_DIR/samples/stark.json" THEN d
                            ELSE IF q = "APP_DIR/samples/got.json" THEN SampleDoc(q)
                            ELSE NoFile]
    /\ userFiles = [u \in 1..MaxUsers |-> IF u = 1 THEN DocEmpty ELSE NoFile]
    /\ namedFiles \in { [q \in NamedPaths |-> IF q.prefix = "" THEN DocEmpty ELSE NoFile],
                          [q \in NamedPaths |-> IF q.prefix = "" THEN DocEmpty ELSE DocNodes] }
    /\ users = <<>>
    /\ session = NoSession
    /\ resp = Unset
    /\ RelIdle /\ TreeIdle /\ SlugIdle

\* A family file is removed from the data directory between two requests.
FamilyFileLost(uid) ==
    /\ UserFileExists(userFiles, uid)
    /\ userFiles' = [userFiles EXCEPT ![uid] = NoFile]
    /\ resp' = Unset
    /\ UNCHANGED <<sampleFiles, namedFiles, users, session, pureVars>>

Next ==
    \/ \E e \in Emails : ApiRegister(e, TRUE)
    \/ ApiRegister(CHOOSE e \in Emails : TRUE, FALSE)
    \/ \E e \in Emails : ApiLogin(e, TRUE)
    \/ ApiLogin(CHOOSE e \in Emails : TRUE, FALSE)
    \/ \E uid \in DOMAIN users : FamilyFileLost(uid)
    \/ ApiLogout
    \/ \E flag \in BOOLEAN : ApiMePublicToggle(flag)
    \/ \E slug \in RequestSlugs : ApiPublicTree(slug)
    \/ ApiTreeMe
    \/ \E sid \in RequestSamples : ApiSampleTree(sid)
    \/ \E name \in RequestNames : ApiTree(name)

Init == InitService

Spec == Init /\ [][Next]_vars

----------------------------------------------------------------------------
(* Claims about the service *)

IsResp(op) == resp # Unset /\ resp.op = op

\* The rows whose stored slug is the sanitized form of the requested slug and
\* whose is_public flag is 1.
PublicOwners(slug) ==
    {i \in DOMAIN users : users[i].public_slug = slugify(slug) /\ users[i].is_public = 1}

PrivateOwners(slug) ==
    {i \in DOMAIN users : users[i].public_slug = slugify(slug) /\ users[i].is_public # 1}

\* C7: a public-slug lookup returns a dataset only if the sanitized slug is
\* stored for a user whose is_public flag is 1 at the time of the lookup; an
\* unknown slug and the slug of a non-public user get the same Not-Found
\* response.
C7_PublicOnly ==
    IsResp("api_public_tree") =>
        /\ resp.code = 200 => PublicOwners(resp.arg.l) # {}
        /\ PublicOwners(resp.arg.l) = {} =>
              /\ resp.code = 404
              /\ resp.body = NotFoundBody
              /\ resp.detail = <<>>

\* The requested slug belongs to a registered user who is not public, and the
\* lookup answered Not-Found.
C7_Witness ==
    /\ IsResp("api_public_tree")
    /\ PrivateOwners(resp.arg.l) # {}
    /\ resp.code = 404

\* What a user's dataset is: the user's own family file when it exists, the
\* default sample otherwise.
OwnDataset(uid) ==
    IF userFiles[uid] # NoFile
    THEN Return(load_family_file(userFiles[uid]))
    ELSE load_sample_tree(sampleFiles, "stark")

SameResult(r) == resp.code = r.code /\ resp.body = r.body /\ resp.detail = r.detail

\* C10: loading a user's dataset returns the content of that user's own family
\* file whenever it exists and the default sample only when it is absent; a
\* request without a logged-in user gets the default sample, never a user's
\* file.
C10_OwnFileOrSample ==
    /\ IsResp("api_tree_me") =>
          IF session # NoSession
          THEN SameResult(OwnDataset(session))
          ELSE /\ SameResult(load_sample_tree(sampleFiles, "stark"))
               /\ \A u \in DOMAIN userFiles :
                     (userFiles[u] # NoFile /\ resp.code = 200)
                         => resp.body # load_family_file(userFiles[u])
    /\ (IsResp("api_public_tree") /\ PublicOwners(resp.arg.l) # {}) =>
          \E i \in PublicOwners(resp.arg.l) : SameResult(OwnDataset(i))

\* The second user's dataset was loaded through load_user_family while the
\* first user's family file exists and differs: the second user's own file
\* was returned.
C10_Witness ==
    /\ IsResp("api_public_tree")
    /\ PublicOwners(resp.arg.l) = {2}
    /\ userFiles[1] # NoFile /\ userFiles[2] # NoFile /\ userFiles[1] # userFiles[2]
    /\ resp.code = 200
    /\ resp.body = load_family_file(userFiles[2])

\* A logged-in user whose family file is absent got the default sample.
C10_WitnessFallback ==
    /\ IsResp("api_tree_me")
    /\ session # NoSession /\ userFiles[session] = NoFile
    /\ resp.code = 200
    /\ resp.body = normalize_tree(GoodSample.m)

LoadOps == {"api_tree_me", "api_public_tree", "api_sample_tree", "api_tree"}

\* The load of the last request was served from the sample store.
SampleBacked ==
    \/ IsResp("api_sample_tree") /\ resp.arg.s \in ALLOWED_SAMPLES
    \/ IsResp("api_tree_me") /\ (session = NoSession \/ userFiles[session] = NoFile)
    \/ /\ IsResp("api_public_tree")
       /\ \E i \in PublicOwners(resp.arg.l) : userFiles[i] = NoFile

SampleBacking ==
    FirstExisting(sampleFiles,
                  sample_paths(IF IsResp("api_sample_tree") THEN resp.arg.s ELSE "stark"))

\* The load of the last request was served from a family file that exists.
FileBacked ==
    \/ IsResp("api_tree_me") /\ session # NoSession /\ userFiles[session] # NoFile
    \/ /\ IsResp("api_public_tree")
       /\ \E i \in PublicOwners(resp.arg.l) : userFiles[i] # NoFile
    \/ /\ IsResp("api_tree")
       /\ \E q \in NamedPaths : q.safe = safe_family_name(resp.arg.l) /\ namedFiles[q] # NoFile

FileBacking ==
    IF IsResp("api_tree_me") THEN userFiles[session]
    ELSE IF IsResp("api_public_tree")
    THEN userFiles[CHOOSE i \in PublicOwners(resp.arg.l) : TRUE]
    ELSE LET safe == safe_family_name(resp.arg.l)
         IN IF namedFiles[NamedPath("family_", safe)] # NoFile
            THEN namedFiles[NamedPath("family_", safe)]
            ELSE namedFiles[NamedPath("", safe)]

ZeroPeople(doc) == normalize_tree(doc.m).m["people"].l = <<>>

C6_WitnessFamilyFile ==
    /\ IsResp("api_tree_me")
    /\ FileBacked
    /\ resp.code = 200
    /\ resp.body.m["people"].l = <<>>

----------------------------------------------------------------------------
(* Specification of the preview pages *)

PreviewPersons ==
    {Person(Str("a")), Person(Str("b")), Person(Str("c")), Person(Str("")), Person(Num("1"))}

PreviewEdges ==
    { Edge("parentId", Str("a"), "childId", Str("c")),
      Edge("parent", Str("b"), "child", Str("c")),
      Edge("sourceId", Str("c"), "targetId", Str("a")),
      Edge("source", Str("b"), "target", Num("1")),
      Edge("source", Str("a"), "target", Str("")) }

PreviewDocs ==
    {MapV([k \in {"people", "relationships"} |-> IF k = "people" THEN ListV(ps) ELSE ListV(rs)]) :
        ps \in SeqsUpTo(PreviewPersons, MaxPeople), rs \in SeqsUpTo(PreviewEdges, MaxEdges)}

\* The default sample and the family file of one public user hold the same
\* generated document.
InitPreview ==
    /\ \E doc \in PreviewDocs :
          /\ sampleFiles = [q \in SamplePaths |->
                               IF q = "DATA_DIR/samples/stark.json" THEN doc ELSE NoFile]
          /\ userFiles = [u \in 1..MaxUsers |-> IF u = 1 THEN doc ELSE NoFile]
    /\ namedFiles = [q \in NamedPaths |-> NoFile]
    /\ users = << [id |-> 1, email |-> [local |-> <<"a">>, domain |-> "x.org"],
                   public_slug |-> <<"a">>, is_public |-> 1] >>
    /\ session = NoSession
    /\ resp = Unset
    /\ RelIdle /\ TreeIdle /\ SlugIdle

NextPreview ==
    \/ Index
    \/ \E slug \in {<<"a">>, <<"z">>} : PublicFamily(slug)

SpecPreview == InitPreview /\ [][NextPreview]_vars

----------------------------------------------------------------------------
(* Claims about the preview pages *)

\* The dataset the last preview page was built from.
PreviewDataset ==
    IF IsResp("index")
    THEN normalize_tree(sampleFiles["DATA_DIR/samples/stark.json"].m).m
    ELSE load_family_file(userFiles[1]).m

\* The people whose stringified id is the childId of no relationship.
RootPeople(fam) ==
    LET IsChild(p) == \E i \in DOMAIN fam["relationships"].l :
                          fam["relationships"].l[i].m["childId"] = PyStr(Get(p.m, "id"))
        NotChild(p) == ~IsChild(p)
    IN SelectSeq(fam["people"].l, NotChild)

BuiltPreview == (IsResp("index") \/ IsResp("public_family")) /\ resp.code = 200

\* C5: the parents of the tree preview are the first two, in people order, of
\* the people whose stringified id is the childId of no relationship of the
\* dataset, or the first two people when there is no such person; at most two
\* entries, and at least one when the dataset has a person.
C5_RootsPreview ==
    BuiltPreview =>
        LET fam == PreviewDataset
            parents == resp.body.m["tree_preview"].m["parents"].l
        IN /\ parents = (IF RootPeople(fam) # <<>> THEN Prefix(RootPeople(fam), 2)
                          ELSE Prefix(fam["people"].l, 2))
           /\ Len(parents) <= 2
           /\ fam["people"].l # <<>> => parents # <<>>

\* C5 on the datasets none of whose relationships has an empty childId.
C5_RootsPreviewNonEmptyChildIds ==
    (BuiltPreview /\ \A i \in DOMAIN PreviewDataset["relationships"].l :
                         PreviewDataset["relationships"].l[i].m["childId"] # Str(""))
        => C5_RootsPreview

\* People a, b, c with the edges a -> c and b -> c: the preview shows a and b.
C5_WitnessExample ==
    /\ BuiltPreview
    /\ PreviewDataset["people"].l = <<Person(Str("a")), Person(Str("b")), Person(Str("c"))>>
    /\ Len(PreviewDataset["relationships"].l) = 2
    /\ resp.body.m["tree_preview"].m["parents"].l = <<Person(Str("a")), Person(Str("b"))>>

----------------------------------------------------------------------------
(* Specification of the timeline previews *)

MaxTimeline == 6

TimelinePerson(keys, name, photo) ==
    MapV([k \in keys |-> IF k = "name" THEN name ELSE photo])

\* Named a and b with a photo, unnamed with a photo, named a with an empty photo.
TimelinePersons ==
    { TimelinePerson({"name", "photo"}, Text(<<"a">>), Str("p")),
      TimelinePerson({"name", "photo"}, Text(<<"b">>), Str("p")),
      TimelinePerson({"photo"}, None, Str("q")),
      TimelinePerson({"name", "photo"}, Text(<<"a">>), Str("")) }

TimelineDocs ==
    {MapV([k \in {"people", "relationships"} |-> IF k = "people" THEN ListV(ps) ELSE EmptyList]) :
        ps \in SeqsUpTo(TimelinePersons, MaxTimeline)}

\* The default sample and the family file of one public user hold the same
\* generated document.
InitTimeline ==
    /\ \E doc \in TimelineDocs :
          /\ sampleFiles = [q \in SamplePaths |->
                               IF q = "DATA_DIR/samples/stark.json" THEN doc ELSE NoFile]
          /\ userFiles = [u \in 1..MaxUsers |-> IF u = 1 THEN doc ELSE NoFile]
    /\ namedFiles = [q \in NamedPaths |-> NoFile]
    /\ users = << [id |-> 1, email |-> [local |-> <<"a">>, domain |-> "x.org"],
                   public_slug |-> <<"a">>, is_public |-> 1] >>
    /\ session = NoSession
    /\ resp = Unset
    /\ RelIdle /\ TreeIdle /\ SlugIdle

NextTimeline ==
    \/ Index
    \/ \E slug \in {<<"a">>, <<"z">>} : PublicFamily(slug)

SpecTimeline == InitTimeline /\ [][NextTimeline]_vars

----------------------------------------------------------------------------
(* Claims about the timeline previews *)

\* The display name of a person, the empty string when the name is missing.
DisplayName(p) == IF "name" \in DOMAIN p.m THEN Chars(PyStr(p.m["name"])) ELSE <<>>

NameOrdered(q) ==
    \A i, j \in DOMAIN q : i < j => ~StrLess(DisplayName(q[j]), DisplayName(q[i]))

Occurrences(q, v) == Cardinality({i \in DOMAIN q : q[i] = v})

\* q holds the first n entries of a name-ordered arrangement of all: it is
\* name-ordered, takes its entries from all, and whatever it leaves out sorts
\* no earlier than what it holds.
FirstByName(q, all, n) ==
    /\ Len(q) = (IF Len(all) < n THEN Len(all) ELSE n)
    /\ NameOrdered(q)
    /\ \A v \in SeqSet(q) \cup SeqSet(all) :
          /\ Occurrences(q, v) <= Occurrences(all, v)
          /\ Occurrences(q, v) < Occurrences(all, v) =>
                 \A i \in DOMAIN q : ~StrLess(DisplayName(v), DisplayName(q[i]))

PhotoPeople(fam) ==
    LET HasPhoto(p) == "photo" \in DOMAIN p.m /\ NonEmptyValue(p.m["photo"])
    IN SelectSeq(fam["people"].l, HasPhoto)

TimelineOk(prev) == FirstByName(prev, PhotoPeople(PreviewDataset), 5)

\* C11: on both preview pages the timeline preview holds only people with a
\* non-empty photo, is ordered by display name (a missing name counting as the
\* empty string), and is the first 5 of the name-ordered people with photos.
C11_TimelinePreview ==
    BuiltPreview => TimelineOk(resp.body.m["timeline_preview"].l)

\* C11 on the index page alone.
C11_TimelinePreviewIndex ==
    (IsResp("index") /\ resp.code = 200) => TimelineOk(resp.body.m["timeline_preview"].l)

\* The public page keeps the photo filter, the cut at 5 and the file order.
C11_PublicFamilyFileOrder ==
    (IsResp("public_family") /\ resp.code = 200) =>
        resp.body.m["timeline_preview"].l = Prefix(PhotoPeople(PreviewDataset), 5)

\* An index page built from six people with photos, b first: five are shown.
C11_WitnessIndexCut ==
    /\ IsResp("index") /\ resp.code = 200
    /\ Len(PhotoPeople(PreviewDataset)) = 6
    /\ DisplayName(PreviewDataset["people"].l[1]) = <<"b">>
    /\ Len(resp.body.m["timeline_preview"].l) = 5

----------------------------------------------------------------------------
(* Specification of the family file loader beside the Tree Normalizer *)

LoaderPath == NamedPath("family_", <<"x">>)

\* One named family file exists and holds the generated mapping.
InitLoader ==
    /\ payload \in Payloads
    /\ namedFiles = [q \in NamedPaths |-> IF q = LoaderPath THEN payload ELSE NoFile]
    /\ tree = Unset /\ tree2 = Unset /\ loaded = Unset
    /\ sampleFiles = EmptyMap /\ userFiles = EmptyMap
    /\ users = <<>> /\ session = NoSession /\ resp = Unset
    /\ RelIdle /\ SlugIdle

CallLoadFamilyFile ==
    /\ loaded = Unset
    /\ NamedExists(namedFiles, LoaderPath)
    /\ loaded' = load_family_file(namedFiles[LoaderPath])
    /\ UNCHANGED <<payload, tree, tree2, relVars, slugVars, sysVars>>

NextLoader == CallLoadFamilyFile \/ CallNormalizeTree

SpecLoader == InitLoader /\ [][NextLoader]_vars

----------------------------------------------------------------------------
(* Claims about the family file loader *)

BothLoaded == tree # Unset /\ loaded # Unset

SameDataset ==
    /\ loaded.m["people"] = tree.m["people"]
    /\ loaded.m["relationships"] = tree.m["relationships"]

\* C12: for every mapping stored in an existing file, load_family_file returns
\* the people and the relationships that _normalize_tree returns on that
\* mapping, also with the keys persons and edges and with an empty earlier key
\* before an alias that holds data.
C12_LoaderAgreesWithNormalizer == BothLoaded => SameDataset

\* The mappings both read alike: neither persons nor edges, and no alias behind
\* an earlier key that is present but empty.
ReadAlike(m) ==
    /\ "persons" \notin DOMAIN m /\ "edges" \notin DOMAIN m
    /\ ("people" \in DOMAIN m /\ "nodes" \in DOMAIN m) => Truthy(m["people"])
    /\ ("relationships" \in DOMAIN m /\ "links" \in DOMAIN m) => Truthy(m["relationships"])

\* C12 on the mappings that use people / nodes and relationships / links only.
C12_AgreeOnSharedKeys == (BothLoaded /\ ReadAlike(payload.m)) => SameDataset

\* A file that uses nodes and links is read alike by both.
C12_WitnessNodesLinks ==
    /\ BothLoaded /\ SameDataset
    /\ DOMAIN payload.m = {"nodes", "links", "meta"}
    /\ tree.m["people"].l # <<>> /\ tree.m["relationships"].l # <<>>

----------------------------------------------------------------------------
(* Specification of registration and public lookup by stored slug *)

\* Local parts: short, 64 characters, 63 characters, and 63 characters before
\* "-b"; two domains for the short and the 64-character ones.
RegistryEmails ==
    { [local |-> <<"a">>, domain |-> "x.org"],
      [local |-> <<"a">>, domain |-> "y.org"],
      [local |-> Repeat("a", SlugCap), domain |-> "x.org"],
      [local |-> Repeat("a", SlugCap), domain |-> "y.org"],
      [local |-> Repeat("a", SlugCap - 1), domain |-> "x.org"],
      [local |-> Repeat("a", SlugCap - 1) \o <<"-", "b">>, domain |-> "x.org"] }

\* An empty users table, no family files, the default sample in place.
InitRegistry ==
    /\ sampleFiles = [q \in SamplePaths |->
                         IF q = "DATA_DIR/samples/stark.json" THEN GoodSample ELSE NoFile]
    /\ userFiles = [u \in 1..MaxUsers |-> NoFile]
    /\ namedFiles = [q \in NamedPaths |-> NoFile]
    /\ users = <<>>
    /\ session = NoSession
    /\ resp = Unset
    /\ RelIdle /\ TreeIdle /\ SlugIdle

NextRegistry ==
    \/ \E e \in RegistryEmails : ApiRegister(e, TRUE)
    \/ \E e \in RegistryEmails : ApiLogin(e, TRUE)
    \/ \E flag \in BOOLEAN : ApiMePublicToggle(flag)
    \/ \E i \in DOMAIN users : ApiPublicTree(users[i].public_slug)

SpecRegistry == InitRegistry /\ [][NextRegistry]_vars

----------------------------------------------------------------------------
(* Claims about stored slugs *)

StoredSlugsDistinct ==
    \A i, j \in DOMAIN users : i # j => users[i].public_slug # users[j].public_slug

StoredSlugsFixedPoints ==
    \A i \in DOMAIN users : slugify(users[i].public_slug) = users[i].public_slug

\* The last request was the public lookup of the stored slug of the public user i.
OwnSlugLookup(i) ==
    /\ IsResp("api_public_tree")
    /\ users[i].is_public = 1
    /\ resp.arg = Text(users[i].public_slug)

ResolvesToOwner(i) ==
    /\ resp.code = 200
    /\ resp.body = load_family_file(userFiles[users[i].id])

OwnSlugLookupsResolve ==
    \A i \in DOMAIN users : OwnSlugLookup(i) => ResolvesToOwner(i)

\* C13: after any registrations and toggles the stored slugs are pairwise
\* distinct, each is a fixed point of slugify, and the public lookup of a public
\* user's own stored slug returns that user's dataset, never Not-Found and
\* never another user's.
C13_OwnSlugResolves ==
    StoredSlugsDistinct /\ StoredSlugsFixedPoints /\ OwnSlugLookupsResolve

\* C13, the distinctness of the stored slugs alone.
C13_StoredSlugsDistinct == StoredSlugsDistinct

\* C13, the lookup alone.
C13_OwnSlugLookupsResolve == OwnSlugLookupsResolve

\* C13 for the users whose stored slug is a fixed point of slugify.
C13_FixedPointSlugsResolve ==
    \A i \in DOMAIN users :
        (OwnSlugLookup(i) /\ slugify(users[i].public_slug) = users[i].public_slug)
            => ResolvesToOwner(i)

\* The second of two users with the local part a holds the slug a-2 and finds
\* their own dataset under it.
C13_WitnessSuffix ==
    /\ Len(users) = 2
    /\ users[2].public_slug = <<"a", "-", "2">>
    /\ OwnSlugLookup(2) /\ ResolvesToOwner(2)

====
